---- MODULE Spec2Model ----
(***************************************************************************)
(* State-machine model of the experiment orchestration engine             *)
(* (MetaOrchestrator), its registry and the agent variants it runs.       *)
(*                                                                         *)
(* One experiment call is in flight at a time.  The synchronous part of a *)
(* call (resolving the listed names and invoking run on every resolved    *)
(* variant) is one step; every variant's run then settles in a step of    *)
(* its own, in any order; the step that resumes after Promise.all ends    *)
(* the call.                                                               *)
(***************************************************************************)
EXTENDS Integers, Sequences, FiniteSets, TLC

\* ------------------------------------------------------------------ bounds
\* Longest unit list / target list of an experiment descriptor.
MaxAgents == 2

\* ------------------------------------------------------------ JS values
\* The JavaScript value undefined, as it shows up in a record field.
Undefined == "undefined"

\* An optional value: None, or Some(v).
None == << >>
Some(v) == << v >>
IsSome(m) == m # None
The(m) == m[1]

\* A thrown / rejection value: an Error carrying a message, or null.
ErrorOf(m) == [type |-> "Error", message |-> m]
NullThrown == [type |-> "null", message |-> Undefined]

\* The kinds of value a unit can throw or reject with, and the value of each
\* kind: only an Error carries a message.
ThrownKinds == {"Error", "string", "object", "null", "undefined"}
ThrownValue(kind) ==
  IF kind = "Error" THEN ErrorOf("boom") ELSE [type |-> kind, message |-> Undefined]

\* Reading ctx.key of an open key/value record.
Get(ctx, key) == IF key \in DOMAIN ctx THEN ctx[key] ELSE Undefined

\* ------------------------------------------------------------- contexts
EmptyCtx == [k \in {} |-> Undefined]

\* The characters a text is made of.
Chars == {"a", "b"}

\* The longest initial_text of a seed of the context-object scenario.
MaxText == 2

\* Seed contexts offered to experiments.
Contexts ==
  { EmptyCtx,
    [initial_text |-> <<"a", "b">>, t |-> "hello"] }

\* --------------------------------------------------------- error messages
NotFoundMsg(name) == "Variant \"" \o name \o "\" not found."
NotAdversarialMsg(name) == "Variant \"" \o name \o "\" is not an adversarial variant."
AdvRunMsg == "Adversarial variants cannot be \"run\". Use \"generateContext\" instead."
NullMessageTypeError == "Cannot read properties of null (reading 'message')"
UndefinedMessageTypeError == "Cannot read properties of undefined (reading 'message')"
\* The TypeError of reading .message of null or of undefined.
MessageTypeError(error) ==
  IF error.type = "undefined" THEN UndefinedMessageTypeError ELSE NullMessageTypeError
NotIterableTypeError == "undefined is not iterable"

\* ========================================================= BasicParserAgent
\* Texts are sequences of symbols; "action" stands for the six letters of
\* the key, "x" for any other character.
DataAlphabet == {"action", ":", ",", "x"}

\* The longest dataString.
MaxData == 5

\* null
Null == "null"

\* What run finds at context.dataString: a string, a value that is not a
\* string, nothing (undefined), or no context object at all.
JsString(chars) == [type |-> "string", chars |-> chars]
JsNumber == [type |-> "number", chars |-> << >>]
JsUndefined == [type |-> "undefined", chars |-> << >>]
NoContextObject == [type |-> "nocontext", chars |-> << >>]

ParserInputs ==
  {JsNumber, JsUndefined, NoContextObject}
    \cup { JsString(chars) : chars \in UNION { [1..n -> DataAlphabet] : n \in 0..MaxData } }

\* The first index of s holding sep, or 0.
IndexOf(s, sep) ==
  IF \E i \in 1..Len(s) : s[i] = sep
    THEN CHOOSE i \in 1..Len(s) : s[i] = sep /\ \A j \in 1..(i - 1) : s[j] # sep
    ELSE 0

\* String.prototype.split(sep): the pieces between the separators.
RECURSIVE Split(_, _)
Split(s, sep) ==
  LET i == IndexOf(s, sep) IN
  IF i = 0 THEN << s >>
  ELSE << SubSeq(s, 1, i - 1) >> \o Split(SubSeq(s, i + 1, Len(s)), sep)

\* part.startsWith('action:')
StartsWithAction(part) == Len(part) >= 2 /\ part[1] = "action" /\ part[2] = ":"

\* parts.find(part => part.startsWith('action:')): the first such part, if any.
FindActionPart(parts) ==
  IF \E i \in 1..Len(parts) : StartsWithAction(parts[i])
    THEN Some(parts[CHOOSE i \in 1..Len(parts) :
                      /\ StartsWithAction(parts[i])
                      /\ \A j \in 1..(i - 1) : ~ StartsWithAction(parts[j])])
    ELSE None

\* The metrics run returns; durationMs is the elapsed time, not modelled.
\* Metrics that consist of the error alone when parsing failed.
ParserMetricsErrorOnly(success, action, error) ==
  IF success
    THEN [success |-> success, actionExtracted |-> action, durationMs |-> 0,
          error |-> error]
    ELSE [error |-> error]

ParserMetrics(success, action, error) ==
  [success |-> success, actionExtracted |-> action, durationMs |-> 0,
   error |-> error]

\* actionPart.split(':')[1]
ExtractAction(actionPart) == Split(actionPart, ":")[2]

\* BasicParserAgent.run(context), given what context.dataString is: every
\* throw happens inside the try block, so the promise resolves.
BasicParserAgentRun(d) ==
  [mode |-> "resolve",
   value |->
     IF d.type = "nocontext"
       THEN ParserMetrics(FALSE, None,
              "Cannot read properties of undefined (reading 'dataString')")
     ELSE IF d.type # "string"
       THEN ParserMetrics(FALSE, None,
              "Context is missing the required \"dataString\" property.")
     ELSE LET actionPart == FindActionPart(Split(d.chars, ",")) IN
          IF ~ IsSome(actionPart)
            THEN ParserMetrics(FALSE, None,
                   "The 'action:' field was not found in the dataString.")
          ELSE LET action == ExtractAction(The(actionPart)) IN
               IF Len(action) = 0
                 THEN ParserMetrics(FALSE, Some(action),
                        "The 'action' value is present but empty.")
                 ELSE ParserMetrics(TRUE, Some(action), Null)]

\* ----------------------------------------------------------------- units
\* A unit is a variant instance: its name, whether it is an instance of
\* AdversarialVariantBase, and which implementation of run it carries.
\* Two units carry the name "A" and two the name "B": only one of each pair
\* can be in a registry.
UnitA == [name |-> "A", adversarial |-> FALSE, impl |-> "const_ok"]
UnitEcho == [name |-> "A", adversarial |-> FALSE, impl |-> "echo"]
UnitB == [name |-> "B", adversarial |-> FALSE, impl |-> "boom"]
UnitNull == [name |-> "B", adversarial |-> FALSE, impl |-> "reject_null"]
SimpleAdversarialVariant ==
  [name |-> "SimpleAdversarialVariant", adversarial |-> TRUE, impl |-> "simple"]
CorruptedTextAdversary ==
  [name |-> "CorruptedTextAdversary", adversarial |-> TRUE, impl |-> "corrupt"]

\* The target units registerAllAgents registers beside the adversarial one.
BasicParserAgent ==
  [name |-> "BasicParserAgent", adversarial |-> FALSE, impl |-> "basic_parser"]

\* MyAgent implements the AgentVariant interface directly; its name is a
\* field initializer.
MyAgent == [name |-> "my-agent-v1", adversarial |-> FALSE, impl |-> "my_agent"]

\* The symbols of a dataString literal.
Symbols(literal) ==
  CASE literal = "user_id:12345,action:login" -> << "x", ":", "x", ",", "action", ":", "x" >>
    [] literal = "action:" -> << "action", ":" >>
    [] literal = "user_id:12345" -> << "x", ":", "x" >>

\* context.dataString as BasicParserAgent.run reads it.
DataStringOf(ctx) ==
  IF "dataString" \in DOMAIN ctx THEN JsString(Symbols(ctx["dataString"]))
  ELSE JsUndefined

UnitPool ==
  { UnitA, UnitEcho, UnitB, UnitNull, SimpleAdversarialVariant, CorruptedTextAdversary }

Names == { u.name : u \in UnitPool }

\* AgentVariant.run(context): how the call ends.  mode "throw" is an
\* exception raised synchronously by the call, "resolve"/"reject" the
\* settlement of the promise it returned.
run(v, ctx) ==
  IF v.adversarial
    THEN [mode |-> "throw", value |-> ErrorOf(AdvRunMsg)]
    ELSE CASE v.impl = "const_ok" -> [mode |-> "resolve", value |-> [ok |-> "true"]]
           [] v.impl = "boom" -> [mode |-> "reject", value |-> ErrorOf("boom")]
           [] v.impl = "echo" -> [mode |-> "resolve", value |-> [seen |-> Get(ctx, "t")]]
           [] v.impl = "reject_null" -> [mode |-> "reject", value |-> NullThrown]
           [] v.impl = "basic_parser" -> BasicParserAgentRun(DataStringOf(ctx))
           [] v.impl = "counter" ->
                IF v.rejects
                  THEN [mode |-> "reject", value |-> ErrorOf(ToString(v.calls))]
                  ELSE [mode |-> "resolve", value |-> [call |-> ToString(v.calls)]]
           [] v.impl = "thrower" ->
                [mode |-> v.mode,
                 value |-> IF v.mode = "resolve" THEN [ok |-> "true"]
                           ELSE ThrownValue(v.kind)]
           [] v.impl = "my_agent" ->
                [mode |-> "resolve",
                 value |-> [status |-> "ok",
                            metrics |-> [success |-> "0.8", latency |-> "120"]]]

\* All texts of length n over Chars.
RECURSIVE TextsOfLen(_)
TextsOfLen(n) ==
  IF n = 0 THEN { << >> }
  ELSE { Append(s, c) : s \in TextsOfLen(n - 1), c \in Chars }

\* SimpleAdversarialVariant.generateContext: the seed's entries, then the
\* three keys the variant always writes.
SimpleOverwrites ==
  [taskDescription |-> "nonsensicalDescription",
   dataString |-> "user_id:12345,action:login",
   difficulty |-> "high"]

\* A generateContext whose literal lists the seed's entries last, so that the
\* seed's values win.
SimpleGenerateSeedWins(seed) ==
  [k \in DOMAIN seed \cup DOMAIN SimpleOverwrites |->
     IF k \in DOMAIN seed THEN seed[k] ELSE SimpleOverwrites[k]]

SimpleGenerate(seed) ==
  [k \in DOMAIN seed \cup DOMAIN SimpleOverwrites |->
     IF k \in DOMAIN SimpleOverwrites THEN SimpleOverwrites[k] ELSE seed[k]]

\* CorruptedTextAdversary.generateContext: every character of initial_text
\* is kept or replaced by a random character; a seed without an iterable
\* initial_text makes the loop throw.
CorruptGenerate(seed) ==
  IF "initial_text" \notin DOMAIN seed
    THEN { [mode |-> "reject", value |-> ErrorOf(NotIterableTypeError)] }
    ELSE { [mode |-> "resolve",
            value |-> [k \in DOMAIN seed |->
                         IF k = "initial_text" THEN txt ELSE seed[k]]]
           : txt \in TextsOfLen(Len(seed["initial_text"])) }

\* generateContext(initialContext) of an adversarial unit: the set of ways
\* the returned promise can settle.
generateContext(v, seed) ==
  IF v.impl = "simple"
    THEN { [mode |-> "resolve", value |-> SimpleGenerate(seed)] }
    ELSE CorruptGenerate(seed)

\* ------------------------------------------------------------------ state
VARIABLES
  variants,            \* the registry: name -> unit
  lastRegister,        \* how the last registration ended: "none" | "stored" | "threw" |
                       \* "construct_threw" (the unit's constructor threw)
  pc,                  \* "idle" | "generating" | "collecting" | "returned"
  experiment,          \* the descriptor of the call in flight
  challengingContext,  \* the context generateContext resolved with, if any
  genArgs,             \* the arguments generateContext was invoked with in this call
  promises,            \* one entry per listed name: the promise of its mapper
  outcome,             \* how the call ended
  calls,               \* two experiment calls that may overlap: call -> its frame
  heap,                \* context objects by reference, for the in-place questions
  parser,              \* one run of BasicParserAgent: its input and its metrics
  breaker,             \* a CircuitBreaker and the execute calls in flight on it
  retry,               \* one call of withRetry: its options, what fn does, its result
  api,                 \* one ApiService operation: its circumstances and its response
  jobs,                \* the job-runner: job id -> job record, and the child processes
  tasks                \* the useTasks hook: its list and the operations in flight

vars ==
  << variants, lastRegister, pc, experiment, challengingContext, genArgs,
     promises, outcome, calls, heap, parser, breaker, retry, api, jobs, tasks >>

\* The variables of the single call in flight.
callVars == << pc, experiment, challengingContext, genArgs, promises, outcome >>

\* The variables only the scenarios of overlapping calls and of context
\* objects use.
scenarioVars == << calls, heap >>

\* The variables of the engine and its scenarios.
engineVars == << variants, lastRegister, callVars, scenarioVars >>

\* The variables of the units and utilities modelled on their own.
utilVars == << parser, breaker, retry, api, jobs, tasks >>

\* All of them but one.
notParser == << breaker, retry, api, jobs, tasks >>
notBreaker == << parser, retry, api, jobs, tasks >>
notRetry == << parser, breaker, api, jobs, tasks >>
notApi == << parser, breaker, retry, jobs, tasks >>
notJobs == << parser, breaker, retry, api, tasks >>
notTasks == << parser, breaker, retry, api, jobs >>

EmptyMap == [k \in {} |-> EmptyCtx]

NoExperiment ==
  [type |-> "none", agents |-> << >>, targetVariants |-> << >>,
   context |-> EmptyCtx, adversarialVariant |-> ""]

NoOutcome == [kind |-> "none", results |-> EmptyMap, error |-> "", failure |-> "none"]

\* The frame of an experiment call that has not started: the locals of
\* runStandardExperiment / runAdversarialBenchmark, one set per call.
\* order lists the mappers in the order their run promises settled;
\* startedAlone tells whether no other call was in flight when it started.
NoFrame ==
  [pc |-> "idle", experiment |-> NoExperiment, challengingContext |-> None,
   genArgs |-> << >>, promises |-> << >>, outcome |-> NoOutcome,
   order |-> << >>, startedAlone |-> FALSE]

\* The two calls of the overlapping-calls scenario.
CallIds == {1, 2}

\* No context object allocated.
NoHeap ==
  [step |-> "none", store |-> << >>, seedRef |-> 0, original |-> EmptyCtx,
   resultRef |-> 0, received |-> << >>, unit |-> "none"]

\* A fresh engine, no call in flight.
Idle ==
  /\ pc = "idle"
  /\ experiment = NoExperiment
  /\ challengingContext = None
  /\ genArgs = << >>
  /\ promises = << >>
  /\ outcome = NoOutcome

\* No run of BasicParserAgent.
NoParser == [step |-> "none"]

\* No CircuitBreaker.
NoBreaker == [step |-> "none"]

\* No call of withRetry.
NoRetry == [step |-> "none"]

\* No ApiService operation.
NoApi == [step |-> "none"]

\* No job-runner.
NoJobs == [step |-> "none"]

\* No useTasks hook.
NoTasks == [step |-> "none"]

\* The units and utilities modelled on their own, not in use.
UtilIdle ==
  /\ parser = NoParser
  /\ breaker = NoBreaker
  /\ retry = NoRetry
  /\ api = NoApi
  /\ jobs = NoJobs
  /\ tasks = NoTasks

Init ==
  /\ variants = EmptyMap
  /\ lastRegister = "none"
  /\ Idle
  /\ calls = [c \in CallIds |-> NoFrame]
  /\ heap = NoHeap
  /\ UtilIdle


\* --------------------------------------------------------------- registry
\* Map.set(key, value)
MapSet(m, key, value) ==
  [k \in DOMAIN m \cup {key} |-> IF k = key THEN value ELSE m[k]]

\* A registerVariant that stores without looking for the name first.
registerVariantOverwriting(variant) ==
  /\ variants' = MapSet(variants, variant.name, variant)
  /\ lastRegister' = "stored"
  /\ UNCHANGED << pc, experiment, challengingContext, genArgs, promises, outcome >>
  /\ UNCHANGED scenarioVars
  /\ UNCHANGED utilVars

\* MetaOrchestrator.registerVariant(variant)
registerVariant(variant) ==
  /\ IF variant.name \in DOMAIN variants
       THEN /\ variants' = variants
            /\ lastRegister' = "threw"
       ELSE /\ variants' = MapSet(variants, variant.name, variant)
            /\ lastRegister' = "stored"
  /\ UNCHANGED << pc, experiment, challengingContext, genArgs, promises, outcome >>
  /\ UNCHANGED scenarioVars
  /\ UNCHANGED utilVars

\* MetaOrchestrator.getVariant(name): the variant, or the error it throws.
getVariant(name) ==
  IF name \in DOMAIN variants
    THEN [threw |-> FALSE, value |-> variants[name]]
    ELSE [threw |-> TRUE, value |-> ErrorOf(NotFoundMsg(name))]

\* ----------------------------------------------------------- the mappers
\* The promise of one mapper (the async callback given to map):
\*   state   "pending" | "fulfilled" | "rejected"
\*   unit    the variant getVariant returned, if it returned
\*   recv    the context run was invoked with, if it was invoked
\*   how     what happened to the unit: "notfound", "threw" (run threw),
\*           "resolved" / "rejected" (run's promise settled), "pending"
\*   settled the metrics run resolved with, or the value it threw
\*   entry   the [name, metrics] pair the mapper returned, if it returned
MapperPromise(name, state, unit, recv, how, settled, entry) ==
  [name |-> name, state |-> state, unit |-> unit, recv |-> recv, how |-> how,
   settled |-> settled, entry |-> entry]

\* A catch block that records a fixed text instead of the error's message.
CatchBlockFixedText(name, unit, recv, how, error) ==
  MapperPromise(name, "fulfilled", unit, recv, how, Some(error),
                Some([error |-> "Variant run failed."]))

\* The catch block of a mapper: it returns [name, {error: error.message}];
\* reading .message of null or undefined throws, and the mapper's promise
\* rejects; a string or an object without message gives {error: undefined}.
CatchBlock(name, unit, recv, how, error) ==
  IF error.type \in {"null", "undefined"}
    THEN MapperPromise(name, "rejected", unit, recv, how, Some(error), None)
    ELSE MapperPromise(name, "fulfilled", unit, recv, how, Some(error),
                       Some([error |-> error.message]))

\* A mapper without the try/catch around a run that throws synchronously.
MapperStartUncaughtThrow(name, context) ==
  LET g == getVariant(name) IN
  IF g.threw
    THEN CatchBlock(name, None, None, "notfound", g.value)
    ELSE LET r == run(g.value, context) IN
         IF r.mode = "throw"
           THEN MapperPromise(name, "rejected", Some(g.value), Some(context),
                              "threw", Some(r.value), None)
           ELSE MapperPromise(name, "pending", Some(g.value), Some(context),
                              "pending", None, None)

\* A mapper up to its first await: getVariant, then the call of run.
MapperStart(name, context) ==
  LET g == getVariant(name) IN
  IF g.threw
    THEN CatchBlock(name, None, None, "notfound", g.value)
    ELSE LET r == run(g.value, context) IN
         IF r.mode = "throw"
           THEN CatchBlock(name, Some(g.value), Some(context), "threw", r.value)
           ELSE MapperPromise(name, "pending", Some(g.value), Some(context),
                              "pending", None, None)

\* A mapper from the settlement of run's promise to its own settlement.
MapperResume(p) ==
  LET r == run(The(p.unit), The(p.recv)) IN
  IF r.mode = "resolve"
    THEN MapperPromise(p.name, "fulfilled", p.unit, p.recv, "resolved",
                       Some(r.value), Some(r.value))
    ELSE CatchBlock(p.name, p.unit, p.recv, "rejected", r.value)

\* A for loop that awaits each unit before it starts the next: only the
\* first mapper has run, the others have not been started.
MapAllSequential(names, context) ==
  [i \in 1..Len(names) |->
     IF i = 1 THEN MapperStart(names[i], context)
     ELSE MapperPromise(names[i], "unstarted", None, None, "unstarted", None, None)]

\* How many of the first i names are names[i].
Occurrence(names, i) == Cardinality({ j \in 1..i : names[j] = names[i] })

\* A unit that counts the invocations of its run has counted the k-th one
\* when run returns its promise; other units keep no state.
Invoked(p, k) ==
  IF p.unit # None /\ The(p.unit).impl = "counter"
    THEN [p EXCEPT !.unit = Some([The(p.unit) EXCEPT !.calls = k])]
    ELSE p

\* names.map(async ...): every mapper runs up to its first await, in list
\* order.
MapAll(names, context) ==
  [i \in 1..Len(names) |->
     Invoked(MapperStart(names[i], context), Occurrence(names, i))]

\* Promise.all(promises): rejected as soon as one promise is, fulfilled once
\* all are.
PromiseAll(ps) ==
  IF \E i \in 1..Len(ps) : ps[i].state = "rejected" THEN "rejected"
  ELSE IF \A i \in 1..Len(ps) : ps[i].state = "fulfilled" THEN "fulfilled"
  ELSE "pending"

\* The largest index holding the name.
LastIndexOf(ps, name) ==
  CHOOSE i \in 1..Len(ps) :
    /\ ps[i].name = name
    /\ \A j \in (i + 1)..Len(ps) : ps[j].name # name

\* A map that keeps the first pair of a key.
ResultsMapFirstWins(ps) ==
  [name \in { ps[i].name : i \in 1..Len(ps) } |->
     The(ps[CHOOSE i \in 1..Len(ps) :
               /\ ps[i].name = name
               /\ \A j \in 1..(i - 1) : ps[j].name # name].entry)]

\* new Map(resultsArray): a later pair of a key replaces an earlier one.
ResultsMap(ps) ==
  [name \in { ps[i].name : i \in 1..Len(ps) } |->
     The(ps[LastIndexOf(ps, name)].entry)]

\* ------------------------------------------------------------ descriptors
\* The unit lists and target lists a descriptor may carry.
AgentLists == UNION { [1..n -> Names] : n \in 0..MaxAgents }

\* The names a descriptor asks results for.
Requested(e) == IF e.type = "adversarial" THEN e.targetVariants ELSE e.agents

\* The value an experiment call resolves with.
Resolved(results, failure) ==
  [kind |-> "resolved", results |-> results, error |-> "", failure |-> failure]

\* The error an experiment call rejects with.
Rejected(message, failure) ==
  [kind |-> "rejected", results |-> EmptyMap, error |-> message, failure |-> failure]

\* ---------------------------------------------------- standard experiment
\* runStandardExperiment(experiment), up to its await of Promise.all.
runStandardExperiment(agents, context) ==
  /\ pc = "idle"
  /\ experiment' = [type |-> "standard", agents |-> agents, targetVariants |-> << >>,
                    context |-> context, adversarialVariant |-> ""]
  /\ promises' = MapAll(agents, context)
  /\ pc' = "collecting"
  /\ outcome' = NoOutcome
  /\ challengingContext' = None
  /\ genArgs' = << >>
  /\ UNCHANGED << variants, lastRegister >>
  /\ UNCHANGED scenarioVars
  /\ UNCHANGED utilVars

\* The promise returned by the run of the i-th listed unit settles, and the
\* mapper awaiting it runs to its end.  Nothing cancels an invocation, so
\* this also happens after the call has returned.
Settle(i) ==
  /\ pc \in {"collecting", "returned"}
  /\ i \in 1..Len(promises)
  /\ promises[i].state = "pending"
  /\ promises' = [promises EXCEPT ![i] = MapperResume(promises[i])]
  /\ UNCHANGED << variants, lastRegister, pc, experiment, challengingContext,
                  genArgs, outcome >>
  /\ UNCHANGED scenarioVars
  /\ UNCHANGED utilVars

\* runStandardExperiment resumes after await Promise.all(promises).
StandardReturn ==
  /\ pc = "collecting"
  /\ experiment.type = "standard"
  /\ PromiseAll(promises) # "pending"
  /\ IF PromiseAll(promises) = "fulfilled"
       THEN outcome' = Resolved(ResultsMap(promises), "none")
       ELSE \E i \in 1..Len(promises) :
              /\ promises[i].state = "rejected"
              /\ outcome' = Rejected(MessageTypeError(The(promises[i].settled)),
                                     "mapper_rejected")
  /\ pc' = "returned"
  /\ UNCHANGED << variants, lastRegister, experiment, challengingContext,
                  genArgs, promises >>
  /\ UNCHANGED scenarioVars
  /\ UNCHANGED utilVars

\* ------------------------------------------------- adversarial experiment
\* The catch block around the body of runAdversarialBenchmark.
AdversarialCatch(error, failure) == Resolved(EmptyMap, failure)

\* Target variants run with the descriptor's own context.
TargetContextSeed(seed, generated) == seed

\* The context the target variants are run with.
TargetContext(seed, generated) == generated

\* A target phase that also maps over the adversarial variant's name.
TargetNamesWithAdversary(e) == << e.adversarialVariant >> \o e.targetVariants

\* The names the target phase maps over.
TargetNames(e) == e.targetVariants

\* runAdversarialBenchmark(experiment), up to its await of generateContext.
runAdversarialBenchmark(adversarialVariant, targetVariants, context) ==
  /\ pc = "idle"
  /\ experiment' = [type |-> "adversarial", agents |-> << >>,
                    targetVariants |-> targetVariants, context |-> context,
                    adversarialVariant |-> adversarialVariant]
  /\ promises' = << >>
  /\ challengingContext' = None
  /\ LET g == getVariant(adversarialVariant) IN
       IF g.threw
         THEN /\ outcome' = AdversarialCatch(g.value, "not_found")
              /\ genArgs' = << >>
              /\ pc' = "returned"
         ELSE IF ~ g.value.adversarial
           THEN /\ outcome' = AdversarialCatch(
                                 ErrorOf(NotAdversarialMsg(adversarialVariant)),
                                 "not_adversarial")
                /\ genArgs' = << >>
                /\ pc' = "returned"
           ELSE /\ outcome' = NoOutcome
                /\ genArgs' = << [unit |-> g.value, arg |-> context] >>
                /\ pc' = "generating"
  /\ UNCHANGED << variants, lastRegister >>
  /\ UNCHANGED scenarioVars
  /\ UNCHANGED utilVars

\* The promise of generateContext settles and runAdversarialBenchmark
\* resumes: into the target phase, or into its catch block.
GenerateSettles ==
  /\ pc = "generating"
  /\ \E r \in generateContext(genArgs[1].unit, genArgs[1].arg) :
       IF r.mode = "resolve"
         THEN /\ challengingContext' = Some(r.value)
              /\ promises' = MapAll(TargetNames(experiment),
                                    TargetContext(experiment.context, r.value))
              /\ pc' = "collecting"
              /\ outcome' = outcome
         ELSE /\ challengingContext' = None
              /\ promises' = << >>
              /\ pc' = "returned"
              /\ outcome' = AdversarialCatch(r.value, "generate_failed")
  /\ UNCHANGED << variants, lastRegister, experiment, genArgs >>
  /\ UNCHANGED scenarioVars
  /\ UNCHANGED utilVars

\* runAdversarialBenchmark resumes after await Promise.all(promises).
AdversarialReturn ==
  /\ pc = "collecting"
  /\ experiment.type = "adversarial"
  /\ PromiseAll(promises) # "pending"
  /\ outcome' = IF PromiseAll(promises) = "fulfilled"
                  THEN Resolved(ResultsMap(promises), "none")
                  ELSE AdversarialCatch(ErrorOf(NullMessageTypeError), "mapper_rejected")
  /\ pc' = "returned"
  /\ UNCHANGED << variants, lastRegister, experiment, challengingContext,
                  genArgs, promises >>
  /\ UNCHANGED scenarioVars
  /\ UNCHANGED utilVars

\* The caller has taken the outcome; the engine keeps nothing of the call.
Finish ==
  /\ pc = "returned"
  /\ pc' = "idle"
  /\ experiment' = NoExperiment
  /\ challengingContext' = None
  /\ genArgs' = << >>
  /\ promises' = << >>
  /\ outcome' = NoOutcome
  /\ UNCHANGED << variants, lastRegister >>
  /\ UNCHANGED scenarioVars
  /\ UNCHANGED utilVars

Next ==
  \/ \E variant \in UnitPool : registerVariant(variant)
  \/ \E agents \in AgentLists, context \in Contexts :
       runStandardExperiment(agents, context)
  \/ \E i \in 1..MaxAgents : Settle(i)
  \/ StandardReturn
  \/ \E adversarialVariant \in Names, targetVariants \in AgentLists,
        context \in Contexts :
       runAdversarialBenchmark(adversarialVariant, targetVariants, context)
  \/ GenerateSettles
  \/ AdversarialReturn
  \/ Finish

Spec == Init /\ [][Next]_vars

\* ================================================================ claims
Indices == 1..Len(promises)

\* The i-th listed name does not occur again later in the list.
IsLast(i) == \A j \in (i + 1)..Len(promises) : promises[j].name # promises[i].name

RequestedNames == { Requested(experiment)[i] : i \in 1..Len(Requested(experiment)) }

StandardReturned == pc = "returned" /\ experiment.type = "standard"
AdversarialReturned == pc = "returned" /\ experiment.type = "adversarial"

\* What the unit behind the i-th mapper does with the context it is given.
OwnRun(i, context) == run(The(promises[i].unit), context)

\* The entry the i-th listed unit's own outcome calls for.
OwnEntry(i, context) ==
  IF promises[i].unit = None
    THEN [error |-> NotFoundMsg(promises[i].name)]
    ELSE IF OwnRun(i, context).mode = "resolve"
      THEN OwnRun(i, context).value
      ELSE [error |-> OwnRun(i, context).value.message]

\* C1: per-unit error containment: a standard experiment call always
\* resolves with a Results mapping, whatever listed unit fails, and every
\* listed unit's entry is the one its own outcome calls for.
C1_Containment ==
  StandardReturned =>
    /\ outcome.kind = "resolved"
    /\ \A i \in Indices :
         IsLast(i) => /\ promises[i].name \in DOMAIN outcome.results
                      /\ outcome.results[promises[i].name]
                           = OwnEntry(i, experiment.context)

\* C2: the keys of the Results an experiment call returns are exactly the
\* requested unit names (standard) or target names (adversarial).
C2_KeysAreRequested ==
  (pc = "returned" /\ outcome.kind = "resolved") =>
    DOMAIN outcome.results = RequestedNames

\* C3: in a standard experiment the entry of a listed unit is the metrics its
\* run returned, {error: m} when its run failed with message m, and {error:
\* not-found message} when the name is not registered; units A returning
\* {ok: true} and B throwing "boom" give {A: {ok: true}, B: {error: "boom"}}.
C3_EntryPerOutcome ==
  (StandardReturned /\ outcome.kind = "resolved") =>
    /\ \A i \in Indices :
         IsLast(i) =>
           LET p == promises[i]
               entry == outcome.results[p.name]
           IN /\ p.unit = None => entry = [error |-> NotFoundMsg(p.name)]
              /\ p.unit # None =>
                   LET r == run(The(p.unit), experiment.context) IN
                   /\ r.mode = "resolve" => entry = r.value
                   /\ r.mode # "resolve" => entry = [error |-> r.value.message]
    /\ ( /\ experiment.agents = << "A", "B" >>
         /\ promises[1].unit = Some(UnitA)
         /\ promises[2].unit = Some(UnitB) )
       => outcome.results = [A |-> [ok |-> "true"], B |-> [error |-> "boom"]]

C3_Witness ==
  /\ StandardReturned
  /\ outcome.kind = "resolved"
  /\ experiment.agents = << "A", "B" >>
  /\ promises[1].unit = Some(UnitA)
  /\ promises[2].unit = Some(UnitB)
  /\ outcome.results = [A |-> [ok |-> "true"], B |-> [error |-> "boom"]]

\* C4: a fatal failure of an adversarial experiment (adversarial unit not
\* registered, or not adversarial, or generateContext throwing) makes the
\* call fail instead of returning a Results mapping.
C4_FatalPropagates ==
  ( /\ AdversarialReturned
    /\ outcome.failure \in {"not_found", "not_adversarial", "generate_failed"} )
  => outcome.kind = "rejected"

\* C5: an experiment call returns only after every dispatched unit
\* invocation has settled.
C5_ReturnsAfterAllSettled ==
  pc = "returned" => \A i \in Indices : promises[i].state # "pending"

\* C6: in an adversarial experiment generateContext is invoked exactly once,
\* with the descriptor's seed context and before any target's run, and every
\* target's run receives the context it returned.
C6_OneGeneratedContext ==
  experiment.type = "adversarial" =>
    /\ Len(genArgs) <= 1
    /\ \A k \in 1..Len(genArgs) : genArgs[k].arg = experiment.context
    /\ pc = "generating" => promises = << >>
    /\ \A i \in Indices :
         IsSome(promises[i].recv) =>
           /\ Len(genArgs) = 1
           /\ IsSome(challengingContext)
           /\ promises[i].recv = challengingContext
           /\ [mode |-> "resolve", value |-> The(promises[i].recv)]
                \in generateContext(genArgs[1].unit, experiment.context)

C6_Witness ==
  /\ AdversarialReturned
  /\ outcome.kind = "resolved"
  /\ experiment.adversarialVariant = "CorruptedTextAdversary"
  /\ experiment.targetVariants = << "A" >>
  /\ Len(promises) = 1
  /\ promises[1].unit = Some(UnitEcho)
  /\ challengingContext # Some(experiment.context)
  /\ promises[1].recv = challengingContext
  /\ outcome.results = [A |-> [seen |-> "hello"]]

\* C7: registerVariant with a name already present raises an error and
\* leaves the registry unchanged.
C7_DuplicateRejected ==
  [][ \A variant \in UnitPool :
        (registerVariant(variant) /\ variant.name \in DOMAIN variants)
        => (lastRegister' = "threw" /\ variants' = variants) ]_vars

C7_Witness ==
  /\ lastRegister = "threw"
  /\ "A" \in DOMAIN variants
  /\ variants["A"] = UnitA
  /\ "B" \in DOMAIN variants
  /\ variants["B"] = UnitNull

\* C8 (as stated): the name of the adversarial unit is never a key of the
\* returned Results.
C8_AdversaryNeverKey ==
  AdversarialReturned => experiment.adversarialVariant \notin DOMAIN outcome.results

\* C8 (amended): the name of the adversarial unit is a key of the returned
\* Results only when it is itself listed among the targets, and its entry is
\* then the error of the refused run.
C8_AdversaryKeyOnlyAsTarget ==
  ( /\ AdversarialReturned
    /\ experiment.adversarialVariant \in DOMAIN outcome.results )
  => /\ \E i \in 1..Len(experiment.targetVariants) :
          experiment.targetVariants[i] = experiment.adversarialVariant
     /\ outcome.results[experiment.adversarialVariant] = [error |-> AdvRunMsg]

C8_Witness ==
  /\ AdversarialReturned
  /\ experiment.adversarialVariant = "SimpleAdversarialVariant"
  /\ experiment.targetVariants = << "A", "SimpleAdversarialVariant" >>
  /\ DOMAIN outcome.results = {"A", "SimpleAdversarialVariant"}

\* C9: run on an adversarial unit always fails with the error that names
\* generateContext and never yields metrics; generateContext on the same
\* unit succeeds.
C9_AdversarialRunRefused ==
  /\ \A i \in Indices :
       (promises[i].unit # None /\ The(promises[i].unit).adversarial) =>
         /\ promises[i].how = "threw"
         /\ promises[i].settled = Some(ErrorOf(AdvRunMsg))
         /\ promises[i].entry # None => "error" \in DOMAIN The(promises[i].entry)
  /\ outcome.failure # "generate_failed"

\* C10 (as stated): a standard experiment whose unit list names an
\* adversarial unit aborts: the call fails.
C10_AdversarialInListAborts ==
  ( /\ StandardReturned
    /\ \E i \in Indices :
         promises[i].unit # None /\ The(promises[i].unit).adversarial )
  => outcome.kind = "rejected"

\* C10 (amended): a standard experiment whose unit list names an adversarial
\* unit does not fail because of it: the unit's run throws, the failure is
\* contained, and the unit's entry in the returned Results is the error of
\* the refused run.
C10_AdversarialInListContained ==
  StandardReturned =>
    /\ \A i \in Indices :
         (promises[i].unit # None /\ The(promises[i].unit).adversarial) =>
           /\ promises[i].state = "fulfilled"
           /\ promises[i].entry = Some([error |-> AdvRunMsg])
           /\ (outcome.kind = "resolved" /\ IsLast(i)) =>
                outcome.results[promises[i].name] = [error |-> AdvRunMsg]
    /\ outcome.kind = "rejected" =>
         \E i \in Indices :
           /\ promises[i].state = "rejected"
           /\ ~ The(promises[i].unit).adversarial

C10_Witness ==
  /\ StandardReturned
  /\ outcome.kind = "resolved"
  /\ experiment.agents = << "SimpleAdversarialVariant", "A" >>
  /\ promises[1].unit = Some(SimpleAdversarialVariant)
  /\ promises[2].unit = Some(UnitA)
  /\ outcome.results
       = [A |-> [ok |-> "true"], SimpleAdversarialVariant |-> [error |-> AdvRunMsg]]

\* C12: units are dispatched concurrently.  Once the engine waits for the
\* mappers, run has been invoked on every listed unit the registry resolved,
\* with the context of the phase, whether or not any other unit has settled:
\* a unit that is still pending has not held back the invocation of the rest.
C12_AllInvokedBeforeWaiting ==
  pc \in {"collecting", "returned"} =>
    \A i \in Indices :
      promises[i].how # "notfound" =>
        /\ IsSome(promises[i].unit)
        /\ IsSome(promises[i].recv)
        /\ promises[i].state # "unstarted"

\* The engine waits, the first unit has not settled, and the second unit has
\* been invoked all the same.
C12_Witness ==
  /\ pc = "collecting"
  /\ Len(promises) = 2
  /\ promises[1].state = "pending"
  /\ promises[2].how = "pending"
  /\ IsSome(promises[2].recv)
  /\ promises[1].name # promises[2].name

\* C17: the registry is append-only, and read-only during experiments.  In
\* every step each registered name stays registered with the unit it was
\* first registered with, and a step of an experiment call (one that changes
\* the call's state) adds, removes and replaces no entry.
C17_RegistryAppendOnly ==
  [][ /\ \A name \in DOMAIN variants :
           name \in DOMAIN variants' /\ variants'[name] = variants[name]
      /\ callVars' # callVars => variants' = variants ]_vars

\* A name is registered, a second unit of that name was refused, and an
\* experiment over that name has run to its end with the first unit.
C17_Witness ==
  /\ lastRegister = "threw"
  /\ pc = "returned"
  /\ Len(promises) = 1
  /\ promises[1].name = "A"
  /\ promises[1].unit = Some(UnitEcho)
  /\ variants["A"] = UnitEcho

\* C19: the engine abandons no invocation.  The step in which an experiment
\* call returns is taken only when no dispatched unit is still unsettled, so
\* while some dispatched unit has not settled the call has not returned.
C19_ReturnsOnlyWhenNoneUnsettled ==
  [][ (pc = "collecting" /\ pc' = "returned") =>
        \A i \in Indices : promises[i].how # "pending" ]_vars

\* ------------------------------------------------------- the CLI run command
\* The names registerAllAgents registers: one adversarial unit and two plain
\* units (the plain units of the pool stand for BasicParserAgent and MyAgent).
RegisterAllAgentsNames == {"SimpleAdversarialVariant", "A", "B"}

\* The handler of the run command from the point where the awaited engine
\* call settles: with Results it prints them, writes the summary report and
\* ends normally (exit code 0); with a thrown error its catch block reports
\* the error and calls process.exit(1).
RunCommandHandler(o) ==
  IF o.kind = "rejected"
    THEN [reportedError |-> TRUE, printedResults |-> FALSE,
          wroteSummary |-> FALSE, exitCode |-> 1]
    ELSE [reportedError |-> FALSE, printedResults |-> TRUE,
          wroteSummary |-> TRUE, exitCode |-> 0]

\* C20: an adversarial experiment started by the CLI run command that hits a
\* fatal failure (unregistered adversarial name, non-adversarial unit, failed
\* context generation) makes the CLI report the error and exit non-zero,
\* without printing results and without writing the summary report.
C20_CliExitsNonZeroOnFatal ==
  ( /\ AdversarialReturned
    /\ DOMAIN variants = RegisterAllAgentsNames
    /\ outcome.failure \in {"not_found", "not_adversarial", "generate_failed"} )
  => LET cli == RunCommandHandler(outcome) IN
       /\ cli.exitCode # 0
       /\ cli.reportedError
       /\ ~ cli.printedResults
       /\ ~ cli.wroteSummary

\* ======================================================= overlapping calls
\* Two experiment calls on one engine.  Every call has its own locals (its
\* frame); the registry is the only state of the engine itself, and it is
\* fixed before the calls start.
\*
\* The registries the two calls run against.
CallRegistries ==
  { [n \in {"A", "B", "SimpleAdversarialVariant"} |->
       IF n = "A" THEN u[1] ELSE IF n = "B" THEN u[2] ELSE SimpleAdversarialVariant]
    : u \in { << UnitEcho, UnitB >>, << UnitA, UnitNull >> } }

\* The unit lists of the two calls.
CallLists == UNION { [1..n -> {"A", "B"}] : n \in 0..MaxAgents }

\* The context of the standard descriptors of the two calls.
CallContext == CHOOSE c \in Contexts : "t" \in DOMAIN c

\* The descriptors of the two calls: standard ones, adversarial ones with an
\* adversarial unit, and one whose adversarialVariant names a plain unit.
CallDescriptors ==
  { [type |-> "standard", agents |-> l, targetVariants |-> << >>,
     context |-> CallContext, adversarialVariant |-> ""] : l \in CallLists }
  \cup
  { [type |-> "adversarial", agents |-> << >>, targetVariants |-> l,
     context |-> EmptyCtx, adversarialVariant |-> "SimpleAdversarialVariant"] :
      l \in CallLists }
  \cup
  { [type |-> "adversarial", agents |-> << >>, targetVariants |-> << >>,
     context |-> EmptyCtx, adversarialVariant |-> "A"] }

IsFulfilled(p) == p.state = "fulfilled"

\* An await that resumes as soon as some mapper has settled, with the
\* entries of the mappers fulfilled by then.
AwaitedRace(ps) ==
  [state  |-> IF \E i \in 1..Len(ps) : ps[i].state = "fulfilled" THEN "fulfilled"
              ELSE IF \E i \in 1..Len(ps) : ps[i].state = "rejected" THEN "rejected"
              ELSE IF ps = << >> THEN "fulfilled"
              ELSE "pending",
   values |-> SelectSeq(ps, IsFulfilled)]

\* await Promise.all(promises): resumes with the entries of all mappers, in
\* list order, or with the first rejection.
Awaited(ps) ==
  [state  |-> PromiseAll(ps),
   values |-> IF PromiseAll(ps) = "fulfilled" THEN ps ELSE << >>]

\* The mapper promises a call awaits, were they kept in a field of the engine
\* that the latest call overwrites.
PromisesOfShared(cs, c) ==
  IF cs[2].pc # "idle" THEN cs[2].promises ELSE cs[c].promises

\* The mapper promises a call awaits: its own local array.
PromisesOf(cs, c) == cs[c].promises

\* A call that removes from the registry the units it has looked up.
RegistryConsumed(registry, e) ==
  [n \in DOMAIN registry \ { Requested(e)[i] : i \in 1..Len(Requested(e)) }
     |-> registry[n]]

\* The registry after an experiment call has started: the call only reads it.
RegistryAfterCall(registry, e) == registry

\* The frame of a call of runStandardExperiment / runAdversarialBenchmark on
\* descriptor e, up to its first await.
StartFrame(e, startedAlone) ==
  LET base == [NoFrame EXCEPT !.experiment = e,
                              !.startedAlone = startedAlone] IN
  IF e.type = "standard"
    THEN [base EXCEPT !.pc = "collecting",
                      !.promises = MapAll(e.agents, e.context)]
    ELSE LET g == getVariant(e.adversarialVariant) IN
         IF g.threw
           THEN [base EXCEPT !.pc = "returned",
                             !.outcome = AdversarialCatch(g.value, "not_found")]
         ELSE IF ~ g.value.adversarial
           THEN [base EXCEPT !.pc = "returned",
                             !.outcome = AdversarialCatch(
                                ErrorOf(NotAdversarialMsg(e.adversarialVariant)),
                                "not_adversarial")]
           ELSE [base EXCEPT !.pc = "generating",
                             !.genArgs = << [unit |-> g.value, arg |-> e.context] >>]

\* The frame after generateContext has settled with r.
GeneratedFrame(f, r) ==
  IF r.mode = "resolve"
    THEN [f EXCEPT !.challengingContext = Some(r.value),
                   !.promises = MapAll(TargetNames(f.experiment),
                                       TargetContext(f.experiment.context, r.value)),
                   !.pc = "collecting"]
    ELSE [f EXCEPT !.pc = "returned",
                   !.outcome = AdversarialCatch(r.value, "generate_failed")]

\* The outcome of a call whose await of Promise.all has resumed with a.
OutcomeOf(e, a) ==
  IF a.state = "fulfilled" THEN Resolved(ResultsMap(a.values), "none")
  ELSE IF e.type = "standard" THEN Rejected(NullMessageTypeError, "mapper_rejected")
  ELSE AdversarialCatch(ErrorOf(NullMessageTypeError), "mapper_rejected")

\* Call c of an experiment method on descriptor e, up to its first await.
\* The second call is the later one.
StartCall(c, e) ==
  /\ calls[c].pc = "idle"
  /\ c = 2 => calls[1].pc # "idle"
  /\ calls' = [calls EXCEPT
                 ![c] = StartFrame(e, \A d \in CallIds \ {c} :
                                         calls[d].pc \in {"idle", "returned"})]
  /\ variants' = RegistryAfterCall(variants, e)
  /\ UNCHANGED << lastRegister, heap >>
  /\ UNCHANGED callVars
  /\ UNCHANGED utilVars

\* The run promise of the i-th unit of call c settles and its mapper ends.
SettleCall(c, i) ==
  /\ calls[c].pc \in {"collecting", "returned"}
  /\ i \in 1..Len(calls[c].promises)
  /\ calls[c].promises[i].state = "pending"
  /\ calls' = [calls EXCEPT ![c].promises[i] = MapperResume(@),
                            ![c].order = Append(@, i)]
  /\ UNCHANGED << variants, lastRegister, heap >>
  /\ UNCHANGED callVars
  /\ UNCHANGED utilVars

\* generateContext of call c settles and the call goes on.
GenerateCall(c) ==
  /\ calls[c].pc = "generating"
  /\ \E r \in generateContext(calls[c].genArgs[1].unit, calls[c].genArgs[1].arg) :
       calls' = [calls EXCEPT ![c] = GeneratedFrame(@, r)]
  /\ UNCHANGED << variants, lastRegister, heap >>
  /\ UNCHANGED callVars
  /\ UNCHANGED utilVars

\* Call c resumes after await Promise.all(promises) and returns.
ReturnCall(c) ==
  /\ calls[c].pc = "collecting"
  /\ LET a == Awaited(PromisesOf(calls, c)) IN
       /\ a.state # "pending"
       /\ calls' = [calls EXCEPT ![c].outcome = OutcomeOf(calls[c].experiment, a),
                                 ![c].pc = "returned"]
  /\ UNCHANGED << variants, lastRegister, heap >>
  /\ UNCHANGED callVars
  /\ UNCHANGED utilVars

InitCalls ==
  /\ variants \in CallRegistries
  /\ lastRegister = "none"
  /\ Idle
  /\ calls = [c \in CallIds |-> NoFrame]
  /\ heap = NoHeap
  /\ UtilIdle

NextCalls ==
  \/ \E c \in CallIds, e \in CallDescriptors : StartCall(c, e)
  \/ \E c \in CallIds, i \in 1..MaxAgents : SettleCall(c, i)
  \/ \E c \in CallIds : GenerateCall(c)
  \/ \E c \in CallIds : ReturnCall(c)

SpecCalls == InitCalls /\ [][NextCalls]_vars

\* Both calls have returned.
BothReturned == \A c \in CallIds : calls[c].pc = "returned"

\* C11: the Results do not depend on the order in which the units complete.
\* Two calls on the same registry and the same descriptor, whose units have
\* the same outcomes (units and context generation are deterministic here),
\* end with the same outcome whatever the order in which their units settled
\* and however their steps interleaved.
C11_CompletionOrderIrrelevant ==
  (BothReturned /\ calls[1].experiment = calls[2].experiment)
    => calls[1].outcome = calls[2].outcome

\* The same two-unit experiment has run twice; in one call the first unit
\* settled first, in the other the second, and both returned Results.
C11_Witness ==
  /\ BothReturned
  /\ calls[1].experiment = calls[2].experiment
  /\ calls[1].experiment.type = "standard"
  /\ calls[1].experiment.agents = << "A", "B" >>
  /\ calls[1].order = << 1, 2 >>
  /\ calls[2].order = << 2, 1 >>
  /\ calls[1].outcome.kind = "resolved"
  /\ DOMAIN calls[2].outcome.results = {"A", "B"}

\* An entry of a Results mapping is error-shaped.
IsErrorEntry(entry) == "error" \in DOMAIN entry

\* C13: runStandardExperiment is idempotent.  Run twice, one call after the
\* other, with the same registry and the same descriptor, it ends the same
\* way both times, with the same key set, the same success/error shape per
\* key and (the units being deterministic) equal values.
C13_StandardIdempotent ==
  ( /\ BothReturned
    /\ calls[2].startedAlone
    /\ calls[1].experiment.type = "standard"
    /\ calls[1].experiment = calls[2].experiment )
  => /\ calls[1].outcome.kind = calls[2].outcome.kind
     /\ DOMAIN calls[1].outcome.results = DOMAIN calls[2].outcome.results
     /\ \A k \in DOMAIN calls[1].outcome.results :
          /\ IsErrorEntry(calls[1].outcome.results[k])
               = IsErrorEntry(calls[2].outcome.results[k])
          /\ calls[1].outcome.results[k] = calls[2].outcome.results[k]

\* The second call started after the first had returned, on the same
\* descriptor, and both returned a success entry and an error entry.
C13_Witness ==
  /\ BothReturned
  /\ calls[2].startedAlone
  /\ calls[1].experiment = calls[2].experiment
  /\ calls[1].experiment.type = "standard"
  /\ calls[1].experiment.agents = << "A", "B" >>
  /\ calls[2].outcome.kind = "resolved"
  /\ calls[2].outcome.results["A"] = [seen |-> "hello"]
  /\ calls[2].outcome.results["B"] = [error |-> "boom"]

\* The mappers of a call run alone, each to its end.
CompletedAlone(names, context) ==
  [i \in 1..Len(names) |->
     LET p == MapperStart(names[i], context) IN
     IF p.state = "pending" THEN MapperResume(p) ELSE p]

\* The outcomes a call on descriptor e may have when it is the only call.
AloneOutcomes(e) ==
  LET f == StartFrame(e, TRUE) IN
  IF f.pc = "returned" THEN { f.outcome }
  ELSE IF f.pc = "collecting"
    THEN { OutcomeOf(e, Awaited(CompletedAlone(e.agents, e.context))) }
  ELSE { LET g == GeneratedFrame(f, r) IN
         IF g.pc = "returned" THEN g.outcome
         ELSE OutcomeOf(e, Awaited(CompletedAlone(TargetNames(e),
                                                  The(g.challengingContext))))
         : r \in generateContext(f.genArgs[1].unit, f.genArgs[1].arg) }

\* C14: two overlapping experiment calls on the same engine do not interfere.
\* Whatever the interleaving, each call returns an outcome it could have
\* returned had it been the only call.
C14_OverlappingAsAlone ==
  \A c \in CallIds :
    calls[c].pc = "returned" => calls[c].outcome \in AloneOutcomes(calls[c].experiment)

\* The second call started while the first was in flight; a standard call and
\* an adversarial call over the same unit each returned the entry of their
\* own context.
C14_Witness ==
  /\ BothReturned
  /\ ~ calls[2].startedAlone
  /\ calls[1].experiment.type = "standard"
  /\ calls[1].experiment.agents = << "A" >>
  /\ calls[2].experiment.type = "adversarial"
  /\ calls[2].experiment.targetVariants = << "A", "B" >>
  /\ calls[2].order = << 2, 1 >>
  /\ calls[1].outcome.results = [n \in {"A"} |-> [seen |-> "hello"]]
  /\ calls[2].outcome.kind = "resolved"
  /\ calls[2].outcome.results["A"] = [seen |-> Undefined]

\* ========================================================= context objects
\* Contexts as objects: a store of objects indexed by reference.  The
\* descriptor's context is the object at seedRef; units and adversarial units
\* are handed references.
\*
\* The seeds: every subset of four keys, over every short initial_text.
SeedKeys == {"initial_text", "dataString", "difficulty", "other_key"}

SeedContexts ==
  { [k \in ks |-> full[k]] :
      ks \in SUBSET SeedKeys,
      full \in { [initial_text |-> txt, dataString |-> "x:1",
                  difficulty |-> "low", other_key |-> "test"] :
                 txt \in UNION { TextsOfLen(n) : n \in 0..MaxText } } }

\* A generateContext that writes its keys into the object it was given and
\* returns that object.
AssignInPlace(store, ref, content) ==
  [store |-> [store EXCEPT ![ref] = content], ref |-> ref]

\* The object literal { ...initialContext, key: value }: a new object; the
\* object behind ref is only read.
NewObject(store, ref, content) ==
  [store |-> Append(store, content), ref |-> Len(store) + 1]

\* A standard experiment over n units: every mapper calls
\* variant.run(experiment.context), and run only reads its argument.
HeapStandard(n) ==
  /\ heap.step = "seeded"
  /\ heap' = [heap EXCEPT !.step = "ran", !.unit = "standard",
                          !.received = [i \in 1..n |-> heap.seedRef]]
  /\ UNCHANGED << variants, lastRegister, calls >>
  /\ UNCHANGED callVars
  /\ UNCHANGED utilVars

\* An adversarial experiment calls generateContext(experiment.context) of
\* adversarial unit v; the promise settles.
HeapGenerate(v) ==
  /\ heap.step = "seeded"
  /\ \E r \in generateContext(v, heap.store[heap.seedRef]) :
       IF r.mode = "resolve"
         THEN LET o == NewObject(heap.store, heap.seedRef, r.value) IN
              heap' = [heap EXCEPT !.step = "generated", !.unit = v.impl,
                                   !.store = o.store, !.resultRef = o.ref]
         ELSE heap' = [heap EXCEPT !.step = "failed", !.unit = v.impl]
  /\ UNCHANGED << variants, lastRegister, calls >>
  /\ UNCHANGED callVars
  /\ UNCHANGED utilVars

\* The target phase over n units: every mapper calls
\* variant.run(challengingContext).
HeapTargets(n) ==
  /\ heap.step = "generated"
  /\ heap' = [heap EXCEPT !.step = "ran",
                          !.received = [i \in 1..n |-> heap.resultRef]]
  /\ UNCHANGED << variants, lastRegister, calls >>
  /\ UNCHANGED callVars
  /\ UNCHANGED utilVars

InitContext ==
  /\ variants = EmptyMap
  /\ lastRegister = "none"
  /\ Idle
  /\ calls = [c \in CallIds |-> NoFrame]
  /\ \E seed \in SeedContexts :
       heap = [NoHeap EXCEPT !.step = "seeded", !.store = << seed >>,
                             !.seedRef = 1, !.original = seed]
  /\ UtilIdle

NextContext ==
  \/ \E n \in 1..MaxAgents : HeapStandard(n)
  \/ \E v \in {SimpleAdversarialVariant, CorruptedTextAdversary} : HeapGenerate(v)
  \/ \E n \in 1..MaxAgents : HeapTargets(n)

SpecContext == InitContext /\ [][NextContext]_vars

\* C15: no context is mutated in place.  The descriptor's context has the
\* same keys and values after any step of an experiment as before it; every
\* unit of a standard experiment receives that very object; and the context
\* an adversarial unit returns is another object than its seed.
C15_NoInPlaceMutation ==
  heap.step # "none" =>
    /\ heap.store[heap.seedRef] = heap.original
    /\ (heap.unit = "standard" /\ heap.step = "ran") =>
         \A i \in 1..Len(heap.received) : heap.received[i] = heap.seedRef
    /\ heap.resultRef # 0 => heap.resultRef # heap.seedRef

\* An adversarial unit has generated a context that differs from its seed in
\* content, the targets have received it, and the seed object is as it was.
C15_Witness ==
  /\ heap.step = "ran"
  /\ heap.unit = "simple"
  /\ Len(heap.received) = 2
  /\ heap.received[1] = heap.resultRef
  /\ heap.original = [dataString |-> "x:1", other_key |-> "test"]
  /\ heap.store[heap.seedRef] = [dataString |-> "x:1", other_key |-> "test"]
  /\ heap.store[heap.resultRef]["dataString"] = "user_id:12345,action:login"

\* The keys SimpleAdversarialVariant writes.
SimpleKeys == {"taskDescription", "dataString", "difficulty"}

\* C16: a generated context contains every key of its seed, and every key the
\* unit does not overwrite keeps the seed's value.  SimpleAdversarialVariant
\* overwrites taskDescription, dataString and difficulty only, always with
\* its own values; CorruptedTextAdversary overwrites initial_text only and
\* returns exactly the seed's key set.
C16_SeedKeysPreserved ==
  heap.resultRef # 0 =>
    LET seed == heap.original
        gen  == heap.store[heap.resultRef] IN
    /\ DOMAIN seed \subseteq DOMAIN gen
    /\ heap.unit = "simple" =>
         /\ DOMAIN gen = DOMAIN seed \cup SimpleKeys
         /\ \A k \in DOMAIN seed \ SimpleKeys : gen[k] = seed[k]
         /\ gen["taskDescription"] = "nonsensicalDescription"
         /\ gen["dataString"] = "user_id:12345,action:login"
         /\ gen["difficulty"] = "high"
    /\ heap.unit = "corrupt" =>
         /\ DOMAIN gen = DOMAIN seed
         /\ \A k \in DOMAIN seed \ {"initial_text"} : gen[k] = seed[k]
         /\ Len(gen["initial_text"]) = Len(seed["initial_text"])

\* SimpleAdversarialVariant has generated from a seed that already had
\* dataString and difficulty.
C16_Witness ==
  /\ heap.step = "generated"
  /\ heap.unit = "simple"
  /\ heap.original = [dataString |-> "x:1", difficulty |-> "low", other_key |-> "test"]
  /\ heap.store[heap.resultRef]["other_key"] = "test"
  /\ heap.store[heap.resultRef]["difficulty"] = "high"

\* ============================================ construction and registration
\* The names a subclass may hand to the constructor of AgentVariantBase: the
\* literals of the repository's classes, and the empty string.
ConstructorNames ==
  {"", "BasicParserAgent", "RobustParserAgent", "SimpleAdversarialVariant",
   "CorruptedTextAdversary"}

\* What a subclass adds to the base class: whether it derives from
\* AdversarialVariantBase, and its run.
Subclasses ==
  { [adversarial |-> FALSE, impl |-> "const_ok"],
    [adversarial |-> TRUE, impl |-> "simple"] }

\* A constructor that stores whatever name it is given.
AgentVariantBaseUnchecked(name, sub) ==
  [threw |-> FALSE,
   value |-> [name |-> name, adversarial |-> sub.adversarial, impl |-> sub.impl]]

\* new Subclass(): the constructor of AgentVariantBase throws on an empty
\* name, and no object results; otherwise the unit carries the name.
AgentVariantBase(name, sub) ==
  IF name = ""
    THEN [threw |-> TRUE, value |-> ErrorOf("Agent variant must have a name.")]
    ELSE [threw |-> FALSE,
          value |-> [name |-> name, adversarial |-> sub.adversarial,
                     impl |-> sub.impl]]

\* orchestrator.registerVariant(new Subclass()) with the subclass passing
\* name to super: when the constructor throws, registerVariant is not called.
ConstructAndRegister(name, sub) ==
  LET made == AgentVariantBase(name, sub) IN
  IF made.threw
    THEN /\ lastRegister' = "construct_threw"
         /\ UNCHANGED variants
         /\ UNCHANGED callVars
         /\ UNCHANGED scenarioVars
         /\ UNCHANGED utilVars
    ELSE registerVariant(made.value)

\* orchestrator.registerVariant(new MyAgent())
RegisterMyAgent == registerVariant(MyAgent)

NextRegistry ==
  \/ \E name \in ConstructorNames, sub \in Subclasses :
       ConstructAndRegister(name, sub)
  \/ RegisterMyAgent

SpecRegistry == Init /\ [][NextRegistry]_vars

\* C18: every unit the registry holds has a non-empty name.  Constructing a
\* unit with an empty name throws and yields no unit, so the empty string is
\* never a registry key, and every key is the non-empty name of its unit,
\* also for the unit that implements the interface without the base class.
C18_NoEmptyName ==
  /\ \A sub \in Subclasses : AgentVariantBase("", sub).threw
  /\ "" \notin DOMAIN variants
  /\ \A name \in DOMAIN variants : variants[name].name = name /\ name # ""

\* A construction with an empty name has just failed; the registry holds a
\* unit of a base-class subclass and the unit implementing the interface
\* directly.
C18_Witness ==
  /\ lastRegister = "construct_threw"
  /\ "BasicParserAgent" \in DOMAIN variants
  /\ "my-agent-v1" \in DOMAIN variants
  /\ variants["my-agent-v1"] = MyAgent

\* ================================================ BasicParserAgent alone
\* run is called on an input and its promise settles.
ParserRun ==
  /\ parser.step = "called"
  /\ parser' = [step |-> "settled", input |-> parser.input,
                result |-> BasicParserAgentRun(parser.input)]
  /\ UNCHANGED engineVars
  /\ UNCHANGED notParser

\* The engine fresh and unused.
EngineIdle ==
  /\ variants = EmptyMap
  /\ lastRegister = "none"
  /\ Idle
  /\ calls = [c \in CallIds |-> NoFrame]
  /\ heap = NoHeap

InitParser ==
  /\ EngineIdle
  /\ \E d \in ParserInputs : parser = [step |-> "called", input |-> d]
  /\ breaker = NoBreaker
  /\ retry = NoRetry
  /\ api = NoApi
  /\ jobs = NoJobs
  /\ tasks = NoTasks

NextParser == ParserRun

SpecParser == InitParser /\ [][NextParser]_vars

\* The text after 'action:' in the first field of the dataString that starts
\* with it, if there is such a field.
ValueAfterAction(chars) ==
  LET actionPart == FindActionPart(Split(chars, ",")) IN
  IF IsSome(actionPart)
    THEN Some(SubSeq(The(actionPart), 3, Len(The(actionPart))))
    ELSE None

\* Metrics whose success is true exactly when error is null, and which report
\* failure with a message for a dataString that is missing or not a string,
\* that has no 'action:' field, or whose action value is empty.
ParserValidates(d, m) ==
  /\ m.success <=> m.error = Null
  /\ ( \/ d.type # "string"
       \/ ~ IsSome(ValueAfterAction(d.chars))
       \/ The(ValueAfterAction(d.chars)) = << >> )
     => (~ m.success /\ m.error # Null)

\* C21: BasicParserAgent never fails: its run resolves for every context,
\* success is true exactly when error is null, failure inputs give success
\* false with a message, and on success actionExtracted is the non-empty
\* value after 'action:' in the dataString.
C21_ParserExtractsActionValue ==
  parser.step = "settled" =>
    /\ parser.result.mode = "resolve"
    /\ ParserValidates(parser.input, parser.result.value)
    /\ parser.result.value.success =>
         /\ parser.result.value.actionExtracted = ValueAfterAction(parser.input.chars)
         /\ The(parser.result.value.actionExtracted) # << >>

\* =========================================================== CircuitBreaker
\* A CircuitBreaker with execute calls that may overlap.  The clock is kept
\* as one bit: elapsed tells whether resetTimeout (taken positive) has passed
\* since lastFailureTime.
\*
\* The largest threshold.
MaxThreshold == 2

\* The execute calls that may be in flight together.
MaxInFlight == 2

\* The failure count is followed up to this value.
MaxFailures == MaxThreshold + 1

BreakerCalls == 1..MaxInFlight

\* What the last step of an execute call was.
BreakerEvent(kind, call) == [kind |-> kind, call |-> call]

\* new CircuitBreaker(threshold, _, resetTimeout).  streak counts the
\* invocations of fn that have failed since the last one that succeeded.
NewBreaker(threshold) ==
  [step |-> "live", state |-> "closed", failures |-> 0, elapsed |-> TRUE,
   threshold |-> threshold, running |-> {}, streak |-> 0,
   last |-> BreakerEvent("none", 0)]

\* An onFailure that opens only above the threshold.
onFailureAboveThreshold(b) ==
  [b EXCEPT !.failures = @ + 1, !.elapsed = FALSE,
            !.state = IF b.failures + 1 > b.threshold THEN "open" ELSE @]

\* CircuitBreaker.onFailure
onFailure(b) ==
  [b EXCEPT !.failures = @ + 1, !.elapsed = FALSE,
            !.state = IF b.failures + 1 >= b.threshold THEN "open" ELSE @]

\* CircuitBreaker.onSuccess
onSuccess(b) ==
  [b EXCEPT !.failures = 0,
            !.state = IF @ = "half-open" THEN "closed" ELSE @]

\* execute throws 'Circuit breaker is open': the breaker is open and
\* resetTimeout has not elapsed since the last failure.
BreakerRefuses(b) == b.state = "open" /\ ~ b.elapsed

\* execute(fn) up to its await of fn(): an open breaker whose resetTimeout
\* has not elapsed throws; otherwise fn is invoked, after the move to
\* half-open if the breaker was open.
Execute(c) ==
  /\ breaker.step = "live"
  /\ c \notin breaker.running
  /\ IF BreakerRefuses(breaker)
       THEN breaker' = [breaker EXCEPT !.last = BreakerEvent("rejected_open", c)]
       ELSE breaker' = [breaker EXCEPT
                          !.state = IF @ = "open" THEN "half-open" ELSE @,
                          !.running = @ \cup {c},
                          !.last = BreakerEvent("invoked", c)]
  /\ UNCHANGED engineVars
  /\ UNCHANGED notBreaker

\* fn() of call c resolves: onSuccess, and execute returns the result.
FnResolves(c) ==
  /\ breaker.step = "live"
  /\ c \in breaker.running
  /\ breaker' = [onSuccess(breaker) EXCEPT !.running = @ \ {c}, !.streak = 0,
                                           !.last = BreakerEvent("resolved", c)]
  /\ UNCHANGED engineVars
  /\ UNCHANGED notBreaker

\* fn() of call c rejects: onFailure, and execute rethrows.
FnRejects(c) ==
  /\ breaker.step = "live"
  /\ c \in breaker.running
  /\ breaker.failures < MaxFailures
  /\ breaker' = [onFailure(breaker) EXCEPT !.running = @ \ {c},
                                           !.streak = @ + 1,
                                           !.last = BreakerEvent("rejected", c)]
  /\ UNCHANGED engineVars
  /\ UNCHANGED notBreaker

\* Time passes: resetTimeout has elapsed since the last failure.
ResetTimeoutElapses ==
  /\ breaker.step = "live"
  /\ ~ breaker.elapsed
  /\ breaker' = [breaker EXCEPT !.elapsed = TRUE]
  /\ UNCHANGED engineVars
  /\ UNCHANGED notBreaker

\* CircuitBreaker.reset()
BreakerReset ==
  /\ breaker.step = "live"
  /\ breaker' = [breaker EXCEPT !.failures = 0, !.state = "closed",
                                !.streak = 0, !.last = BreakerEvent("reset", 0)]
  /\ UNCHANGED engineVars
  /\ UNCHANGED notBreaker

InitBreaker ==
  /\ EngineIdle
  /\ \E threshold \in 1..MaxThreshold : breaker = NewBreaker(threshold)
  /\ parser = NoParser
  /\ retry = NoRetry
  /\ api = NoApi
  /\ jobs = NoJobs
  /\ tasks = NoTasks

NextBreaker ==
  \/ \E c \in BreakerCalls : Execute(c)
  \/ \E c \in BreakerCalls : FnResolves(c)
  \/ \E c \in BreakerCalls : FnRejects(c)
  \/ ResetTimeoutElapses
  \/ BreakerReset

SpecBreaker == InitBreaker /\ [][NextBreaker]_vars

\* C22: the circuit breaker opens.  The failure of fn that makes threshold
\* failures in a row, with no success in between, leaves the state 'open';
\* while the state is 'open' and resetTimeout has not elapsed since the last
\* failure, execute rejects with 'Circuit breaker is open' and does not
\* invoke fn; an execute on an open breaker whose resetTimeout has elapsed
\* moves it to 'half-open' and invokes fn.
C22_BreakerOpens ==
  [][ \A c \in BreakerCalls :
        /\ (FnRejects(c) /\ breaker'.streak >= breaker.threshold)
             => breaker'.state = "open"
        /\ (Execute(c) /\ breaker.state = "open" /\ ~ breaker.elapsed)
             => /\ breaker'.last = BreakerEvent("rejected_open", c)
                /\ breaker'.running = breaker.running
                /\ breaker'.state = "open"
        /\ (Execute(c) /\ breaker.state = "open" /\ breaker.elapsed)
             => /\ breaker'.state = "half-open"
                /\ c \in breaker'.running ]_vars

\* Two failures in a row have opened a breaker of threshold two, and an
\* execute has just been refused.
C22_Witness ==
  /\ breaker.step = "live"
  /\ breaker.threshold = 2
  /\ breaker.streak = 2
  /\ breaker.state = "open"
  /\ breaker.running = {}
  /\ breaker.last.kind = "rejected_open"

\* C29: for every interleaving of concurrent execute calls, a call that
\* fails while the breaker is 'half-open' puts it back to 'open', and
\* whenever the state is 'open' the failure count is at least the threshold.
C29_HalfOpenFailureReopens ==
  [][ /\ \A c \in BreakerCalls :
           (FnRejects(c) /\ breaker.state = "half-open") => breaker'.state = "open"
      /\ breaker'.state = "open" => breaker'.failures >= breaker'.threshold ]_vars

\* ================================================================ withRetry
\* The largest maxAttempts.
MaxAttempts == 3

\* delayMs, the base delay (its default).
DelayMs == 1000

\* What the k-th invocation of fn does: it resolves with a value, rejects
\* with an Error, or rejects with a value that is not an Error (a string).
\* The number k tells the values and messages of the invocations apart.
FnKinds == {"resolve", "reject_error", "reject_string"}
FnValue(k) == [value |-> k]
FnThrown(kind, k) ==
  [type |-> IF kind = "reject_error" THEN "Error" ELSE "string", text |-> k]

\* error instanceof Error ? error : new Error(String(error))
AsError(e) == [type |-> "Error", text |-> e.text]

\* 2 to the n
RECURSIVE Pow2(_)
Pow2(n) == IF n = 0 THEN 1 ELSE 2 * Pow2(n - 1)

\* The delay before the next attempt.
RetryDelay(backoff, attempt) ==
  IF backoff = "exponential" THEN DelayMs * Pow2(attempt - 1)
  ELSE DelayMs * attempt

\* An onRetry call that numbers the attempts from zero.
OnRetryCallZeroBased(attempt, lastError) ==
  [attempt |-> attempt - 1, error |-> lastError]

\* onRetry(attempt, lastError)
OnRetryCall(attempt, lastError) == [attempt |-> attempt, error |-> lastError]

\* The for loop of withRetry from the given attempt on; script[k] is what the
\* k-th invocation of fn does, onRetryCalls and delays are the calls of
\* onRetry and the waits so far.
RECURSIVE RetryLoop(_, _, _, _)
RetryLoop(opts, attempt, onRetryCalls, delays) ==
  IF opts.script[attempt] = "resolve"
    THEN [invocations |-> attempt, onRetryCalls |-> onRetryCalls,
          delays |-> delays,
          outcome |-> [kind |-> "returned", value |-> FnValue(attempt),
                       error |-> AsError(FnThrown("reject_error", 0))]]
    ELSE LET lastError == AsError(FnThrown(opts.script[attempt], attempt)) IN
         IF attempt = opts.maxAttempts
           THEN [invocations |-> attempt, onRetryCalls |-> onRetryCalls,
                 delays |-> delays,
                 outcome |-> [kind |-> "threw", value |-> FnValue(0),
                              error |-> lastError]]
           ELSE RetryLoop(opts, attempt + 1,
                          IF opts.hasOnRetry
                            THEN Append(onRetryCalls, OnRetryCall(attempt, lastError))
                            ELSE onRetryCalls,
                          Append(delays, RetryDelay(opts.backoff, attempt)))

\* withRetry(fn, options) with maxAttempts >= 1
withRetry(opts) == RetryLoop(opts, 1, << >>, << >>)

\* The options and fn behaviours withRetry is called with.
RetryInputs ==
  UNION { [maxAttempts : {m}, backoff : {"linear", "exponential"},
           hasOnRetry : BOOLEAN, script : [1..m -> FnKinds]]
          : m \in 1..MaxAttempts }

\* withRetry runs to its end.
RetryRun ==
  /\ retry.step = "called"
  /\ retry' = [step |-> "settled", opts |-> retry.opts,
               result |-> withRetry(retry.opts)]
  /\ UNCHANGED engineVars
  /\ UNCHANGED notRetry

InitRetry ==
  /\ EngineIdle
  /\ \E opts \in RetryInputs : retry = [step |-> "called", opts |-> opts]
  /\ parser = NoParser
  /\ breaker = NoBreaker
  /\ api = NoApi
  /\ jobs = NoJobs
  /\ tasks = NoTasks

NextRetry == RetryRun

SpecRetry == InitRetry /\ [][NextRetry]_vars

\* The attempts at which fn resolves.
Successes(script) == { k \in 1..Len(script) : script[k] = "resolve" }

\* The first of them.
FirstSuccess(script) ==
  CHOOSE k \in Successes(script) : \A j \in Successes(script) : k <= j

\* C23: withRetry invokes fn at most maxAttempts times.  It returns the value
\* of the first successful invocation and invokes fn no more; if all
\* maxAttempts invocations fail it throws the error of the last one; onRetry
\* is called once after each failed invocation except the maxAttempts-th,
\* with the 1-based number of the attempt and its error.
C23_RetryAtMostMaxAttempts ==
  retry.step = "settled" =>
    LET opts == retry.opts
        r    == retry.result IN
    /\ r.invocations <= opts.maxAttempts
    /\ IF Successes(opts.script) # {}
         THEN /\ r.invocations = FirstSuccess(opts.script)
              /\ r.outcome.kind = "returned"
              /\ r.outcome.value = FnValue(FirstSuccess(opts.script))
         ELSE /\ r.invocations = opts.maxAttempts
              /\ r.outcome.kind = "threw"
              /\ r.outcome.error.type = "Error"
              /\ r.outcome.error.text = opts.maxAttempts
    /\ opts.hasOnRetry =>
         /\ Len(r.onRetryCalls) = r.invocations - 1
         /\ \A k \in 1..Len(r.onRetryCalls) :
              /\ r.onRetryCalls[k].attempt = k
              /\ r.onRetryCalls[k].error.text = k
    /\ ~ opts.hasOnRetry => r.onRetryCalls = << >>

\* Two failed invocations, then a successful third: fn was invoked three
\* times, onRetry twice, and the third value was returned.
C23_Witness ==
  /\ retry.step = "settled"
  /\ retry.opts.maxAttempts = 3
  /\ retry.opts.hasOnRetry
  /\ retry.opts.script = << "reject_error", "reject_string", "resolve" >>
  /\ retry.result.invocations = 3
  /\ Len(retry.result.onRetryCalls) = 2
  /\ retry.result.outcome.kind = "returned"
  /\ retry.result.outcome.value = FnValue(3)

\* =============================================================== ApiService
\* maxAttempts of the withRetry calls of ApiService.
ApiMaxAttempts == 3

ApiOperations == {"query", "create", "update", "delete"}

\* What the request of one attempt does: it throws an Error, throws another
\* value, or resolves, with an error reported by the backend or with data.
RequestKinds == {"throw_error", "throw_string", "backend_error", "ok"}

\* The error execute throws on an open breaker; text 0 stands for the message
\* 'Circuit breaker is open', text k for the message of the k-th attempt.
BreakerOpenError == [type |-> "Error", text |-> 0]

\* The ApiResponse of an attempt whose request resolved.
AttemptResponse(op, kind, k) ==
  IF kind = "backend_error"
    THEN [data |-> None, error |-> Some([message |-> k, code |-> "code"]),
          status |-> 500]
    ELSE [data |-> IF op = "delete" THEN None ELSE Some("result"),
          error |-> None,
          status |-> CASE op = "query" -> 200
                       [] op = "create" -> 201
                       [] op = "update" -> 200
                       [] op = "delete" -> 204]

\* A catch block that lets the error go on to the caller.
ApiCatchRethrow(error) ==
  [mode |-> "reject",
   value |-> [data |-> None, error |-> Some([message |-> error.text]),
              status |-> 500]]

\* The catch block of an operation: every error withRetry or the breaker
\* throws is an Error, and its message goes into the response.
ApiCatch(error) ==
  [mode |-> "resolve",
   value |-> [data |-> None, error |-> Some([message |-> error.text]),
              status |-> 500]]

\* The script of fn for withRetry: a request that throws is a rejection.
RetryScript(script) ==
  [k \in DOMAIN script |->
     IF script[k] = "throw_error" THEN "reject_error"
     ELSE IF script[k] = "throw_string" THEN "reject_string"
     ELSE "resolve"]

\* query / create / update / delete: circuitBreaker.execute around withRetry
\* around the request, all inside try/catch.  b is the breaker when the
\* operation starts, script what the request does at each attempt.
ApiOperation(op, b, script) ==
  IF BreakerRefuses(b) THEN ApiCatch(BreakerOpenError)
  ELSE LET r == withRetry([maxAttempts |-> ApiMaxAttempts,
                           backoff |-> "exponential", hasOnRetry |-> FALSE,
                           script |-> RetryScript(script)]) IN
       IF r.outcome.kind = "threw" THEN ApiCatch(r.outcome.error)
       ELSE [mode |-> "resolve",
             value |-> AttemptResponse(op, script[r.invocations], r.invocations)]

\* The circumstances of an operation.
ApiInputs ==
  [op : ApiOperations,
   breaker : [state : {"closed", "open", "half-open"}, elapsed : BOOLEAN],
   script : [1..ApiMaxAttempts -> RequestKinds]]

\* The operation runs to its end.
ApiRun ==
  /\ api.step = "called"
  /\ api' = [step |-> "settled", input |-> api.input,
             result |-> ApiOperation(api.input.op, api.input.breaker,
                                     api.input.script)]
  /\ UNCHANGED engineVars
  /\ UNCHANGED notApi

InitApi ==
  /\ EngineIdle
  /\ \E input \in ApiInputs : api = [step |-> "called", input |-> input]
  /\ parser = NoParser
  /\ breaker = NoBreaker
  /\ retry = NoRetry
  /\ jobs = NoJobs
  /\ tasks = NoTasks

NextApi == ApiRun

SpecApi == InitApi /\ [][NextApi]_vars

\* The request throws at every attempt.
ThrowsEveryAttempt(script) ==
  \A k \in DOMAIN script : script[k] \in {"throw_error", "throw_string"}

\* C24: every ApiService operation resolves to an ApiResponse and never
\* rejects.  When the circuit breaker is open, or the request throws on every
\* retry attempt, the response has data null, status 500 and a non-null error
\* carrying the failure message: that of the breaker, or that of the last
\* attempt.
C24_ApiNeverRejects ==
  api.step = "settled" =>
    LET in == api.input
        response == api.result.value IN
    /\ api.result.mode = "resolve"
    /\ DOMAIN response = {"data", "error", "status"}
    /\ (BreakerRefuses(in.breaker) \/ ThrowsEveryAttempt(in.script)) =>
         /\ response.data = None
         /\ IsSome(response.error)
         /\ response.status = 500
         /\ The(response.error).message
              = IF BreakerRefuses(in.breaker) THEN 0 ELSE ApiMaxAttempts

\* A create whose request threw at every attempt, on a closed breaker, has
\* resolved with the message of the third attempt and status 500.
C24_Witness ==
  /\ api.step = "settled"
  /\ api.input.op = "create"
  /\ api.input.breaker.state = "closed"
  /\ api.input.script = << "throw_error", "throw_string", "throw_error" >>
  /\ api.result.mode = "resolve"
  /\ api.result.value.status = 500
  /\ api.result.value.error = Some([message |-> 3])

\* ======================================================= job-runner API
\* The largest reading of Date.now() and the most POST requests modelled.
MaxClock == 2
MaxRequests == 3

\* What POST /run-strategy finds: no config in the body, a config path that
\* does not exist, or a config file.
ConfigKinds == {"missing", "not_found", "ok"}

\* jobId: `job_${Date.now()}`, named here by the clock reading.
JobId(now) == now

JobRecord(id, status, resultPath) ==
  [id |-> id, status |-> status, resultPath |-> resultPath]

\* The server after app.listen: no jobs, no child processes, no request yet.
NewServer ==
  [step |-> "live", now |-> 0, records |-> [k \in {} |-> 0],
   children |-> << >>, requests |-> 0,
   last |-> [status |-> 0, jobId |-> None]]

\* Date.now() moves on by a millisecond.
ClockTick ==
  /\ jobs.step = "live"
  /\ jobs.now < MaxClock
  /\ jobs' = [jobs EXCEPT !.now = @ + 1]
  /\ UNCHANGED engineVars
  /\ UNCHANGED notJobs

\* The handler of POST /run-strategy, up to its response; an accepted request
\* (202) has spawned its child process, which holds the jobId in its closure.
PostRunStrategy(config) ==
  /\ jobs.step = "live"
  /\ jobs.requests < MaxRequests
  /\ LET jobId == JobId(jobs.now)
         running == MapSet(jobs.records, jobId, JobRecord(jobId, "running", None)) IN
     jobs' =
       CASE config = "missing" ->
              [jobs EXCEPT !.requests = @ + 1,
                           !.last = [status |-> 400, jobId |-> None]]
         [] config = "not_found" ->
              [jobs EXCEPT !.requests = @ + 1,
                           !.records = MapSet(running, jobId,
                                              JobRecord(jobId, "failed", None)),
                           !.last = [status |-> 404, jobId |-> None]]
         [] config = "ok" ->
              [jobs EXCEPT !.requests = @ + 1,
                           !.records = running,
                           !.children = Append(@, [jobId |-> jobId, open |-> TRUE,
                                                   code |-> 0]),
                           !.last = [status |-> 202, jobId |-> Some(jobId)]]
  /\ UNCHANGED engineVars
  /\ UNCHANGED notJobs

\* The 'close' listener of the i-th child process, with its exit code.
ChildClose(i, code) ==
  /\ jobs.step = "live"
  /\ i \in DOMAIN jobs.children
  /\ jobs.children[i].open
  /\ LET jobId == jobs.children[i].jobId IN
     jobs' = [jobs EXCEPT
       !.children[i] = [jobId |-> jobId, open |-> FALSE, code |-> code],
       !.records = MapSet(@, jobId,
                          IF code = 0
                            THEN JobRecord(jobId, "completed", Some("summary.md"))
                            ELSE JobRecord(jobId, "failed", None))]
  /\ UNCHANGED engineVars
  /\ UNCHANGED notJobs

\* GET /job/:id.
GetJob(id) ==
  /\ jobs.step = "live"
  /\ jobs' = [jobs EXCEPT !.last =
       IF id \in DOMAIN jobs.records
         THEN [status |-> 200, jobId |-> Some(id)]
         ELSE [status |-> 404, jobId |-> None]]
  /\ UNCHANGED engineVars
  /\ UNCHANGED notJobs

InitJobs ==
  /\ EngineIdle
  /\ jobs = NewServer
  /\ parser = NoParser
  /\ breaker = NoBreaker
  /\ retry = NoRetry
  /\ api = NoApi
  /\ tasks = NoTasks

NextJobs ==
  \/ ClockTick
  \/ \E config \in ConfigKinds : PostRunStrategy(config)
  \/ \E i \in 1..MaxRequests, code \in {0, 1} : ChildClose(i, code)
  \/ \E id \in 0..MaxClock : GetJob(id)

SpecJobs == InitJobs /\ [][NextJobs]_vars

\* C25: each accepted POST /run-strategy has its own job record, whose status
\* is 'running' until the child process of the request closes, and from then
\* on 'completed' when the exit code was 0 and 'failed' otherwise.
C25_OwnJobRecord ==
  jobs.step = "live" =>
    \A i \in DOMAIN jobs.children :
      LET child == jobs.children[i]
          job == jobs.records[child.jobId] IN
      /\ \A j \in DOMAIN jobs.children : j # i => jobs.children[j].jobId # child.jobId
      /\ job.status = IF child.open THEN "running"
                      ELSE IF child.code = 0 THEN "completed" ELSE "failed"

\* ============================================== the kinds of thrown value
\* A unit whose run resolves, throws or rejects, with a value of the kind.
ThrowerUnit(name, mode, kind) ==
  [name |-> name, adversarial |-> FALSE, impl |-> "thrower", mode |-> mode,
   kind |-> kind]

\* The units a registry of this scenario holds under the name: one for each
\* way of failing with each kind of value, and one that succeeds.
ThrowerUnits(name) ==
  { ThrowerUnit(name, mode, kind) : mode \in {"throw", "reject"}, kind \in ThrownKinds }
    \cup { ThrowerUnit(name, "resolve", "Error") }

ThrownLists == UNION { [1..n -> {"A", "B"}] : n \in 1..MaxAgents }

\* A registry with a unit "A" that fails and some unit "B".
InitThrown ==
  /\ \E a \in ThrowerUnits("A"), b \in ThrowerUnits("B") :
       /\ a.mode # "resolve"
       /\ variants = MapSet(MapSet(EmptyMap, "A", a), "B", b)
  /\ lastRegister = "stored"
  /\ Idle
  /\ calls = [c \in CallIds |-> NoFrame]
  /\ heap = NoHeap
  /\ UtilIdle

NextThrown ==
  \/ \E agents \in ThrownLists : runStandardExperiment(agents, CallContext)
  \/ \E i \in 1..MaxAgents : Settle(i)
  \/ StandardReturn
  \/ Finish

SpecThrown == InitThrown /\ [][NextThrown]_vars

\* C26: whatever kind of value a listed unit's run throws or rejects with
\* (an Error, a string, an object without message, null, undefined), the
\* standard experiment call resolves, and the Results entry of that unit has
\* an error key.
C26_EveryThrownKindContained ==
  StandardReturned =>
    /\ outcome.kind = "resolved"
    /\ \A i \in Indices :
         (IsLast(i) /\ OwnRun(i, experiment.context).mode # "resolve")
           => /\ promises[i].name \in DOMAIN outcome.results
              /\ "error" \in DOMAIN outcome.results[promises[i].name]

\* ===================================================== repeated unit names
\* A unit whose run counts its invocations and returns (or rejects with) the
\* number of the invocation.
CounterUnit(name, rejects) ==
  [name |-> name, adversarial |-> FALSE, impl |-> "counter", rejects |-> rejects,
   calls |-> 0]

DupLists == UNION { [1..n -> {"A", "B"}] : n \in 1..MaxAgents }

\* A registry with a counting unit "A", a counting unit "B" and the
\* adversarial variant.
InitDup ==
  /\ \E ra \in BOOLEAN, rb \in BOOLEAN :
       variants = MapSet(MapSet(MapSet(EmptyMap, "A", CounterUnit("A", ra)),
                                "B", CounterUnit("B", rb)),
                         "SimpleAdversarialVariant", SimpleAdversarialVariant)
  /\ lastRegister = "stored"
  /\ Idle
  /\ calls = [c \in CallIds |-> NoFrame]
  /\ heap = NoHeap
  /\ UtilIdle

NextDup ==
  \/ \E agents \in DupLists : runStandardExperiment(agents, CallContext)
  \/ \E targetVariants \in DupLists :
       runAdversarialBenchmark("SimpleAdversarialVariant", targetVariants,
                               CallContext)
  \/ GenerateSettles
  \/ \E i \in 1..MaxAgents : Settle(i)
  \/ StandardReturn
  \/ AdversarialReturn
  \/ Finish

SpecDup == InitDup /\ [][NextDup]_vars

\* How often the name occurs in the list.
Occurrences(names, name) ==
  Cardinality({ j \in 1..Len(names) : names[j] = name })

\* The entry of the k-th invocation of a counting unit.
CounterEntry(unit, k) ==
  IF unit.rejects THEN [error |-> ToString(k)] ELSE [call |-> ToString(k)]

\* C27: when a name occurs several times in the unit list or target list,
\* run is invoked once per occurrence (the k-th occurrence is the unit's
\* k-th invocation), and the Results the call returns hold one entry for the
\* name: the outcome of its last occurrence, in whatever order the
\* invocations completed.
C27_LastOccurrenceWins ==
  LET names == Requested(experiment) IN
  /\ pc = "collecting" =>
       /\ Len(promises) = Len(names)
       /\ \A i \in Indices :
            /\ promises[i].name = names[i]
            /\ The(promises[i].unit).calls = Occurrence(names, i)
  /\ (pc = "returned" /\ outcome.kind = "resolved") =>
       /\ DOMAIN outcome.results = RequestedNames
       /\ \A name \in RequestedNames :
            outcome.results[name]
              = CounterEntry(variants[name], Occurrences(names, name))

\* A standard call over ["A", "A"] has returned the second invocation's
\* outcome as the entry of "A".
C27_Witness ==
  /\ StandardReturned
  /\ experiment.agents = << "A", "A" >>
  /\ outcome.kind = "resolved"
  /\ outcome.results = [A |-> CounterEntry(variants["A"], 2)]

\* ================================================ the registered agents
\* The names experiments of this scenario list: the three registered by
\* registerAllAgents and one that is not registered.
AgentNames ==
  {SimpleAdversarialVariant.name, BasicParserAgent.name, MyAgent.name, "ghost"}

AgentNameLists == UNION { [1..n -> AgentNames] : n \in 0..MaxAgents }

\* Contexts with and without a dataString the parser accepts.
AgentContexts ==
  { EmptyCtx,
    [dataString |-> "user_id:12345,action:login"],
    [dataString |-> "action:"],
    [dataString |-> "user_id:12345"] }

\* registerAllAgents(orchestrator) on a new orchestrator.
registerAllAgents ==
  MapSet(MapSet(MapSet(EmptyMap, SimpleAdversarialVariant.name, SimpleAdversarialVariant),
                BasicParserAgent.name, BasicParserAgent),
         MyAgent.name, MyAgent)

InitAgents ==
  /\ variants = registerAllAgents
  /\ lastRegister = "stored"
  /\ Idle
  /\ calls = [c \in CallIds |-> NoFrame]
  /\ heap = NoHeap
  /\ UtilIdle

NextAgents ==
  \/ \E agents \in AgentNameLists, context \in AgentContexts :
       runStandardExperiment(agents, context)
  \/ \E targetVariants \in AgentNameLists, context \in AgentContexts :
       runAdversarialBenchmark(SimpleAdversarialVariant.name, targetVariants,
                               context)
  \/ GenerateSettles
  \/ \E i \in 1..MaxAgents : Settle(i)
  \/ StandardReturn
  \/ AdversarialReturn
  \/ Finish

SpecAgents == InitAgents /\ [][NextAgents]_vars

\* Resolving or running the i-th listed unit failed inside the engine.
FailedInEngine(i) == promises[i].how \in {"notfound", "threw", "rejected"}

\* The entry carries an error field that is neither null nor undefined.
HasError(entry) ==
  /\ "error" \in DOMAIN entry
  /\ entry["error"] \notin {Null, Undefined}

\* C28 as stated: over the units registered by registerAllAgents, a Results
\* entry carries a non-null error field if and only if resolving or running
\* that unit failed (threw) inside the engine.
C28_ErrorFieldIffFailed ==
  (pc = "returned" /\ outcome.kind = "resolved") =>
    \A i \in Indices :
      (IsLast(i) /\ promises[i].name \in DOMAIN outcome.results) =>
        (HasError(outcome.results[promises[i].name]) <=> FailedInEngine(i))

\* C28 amended: over the units registered by registerAllAgents, a Results
\* entry consists of the error field alone if and only if resolving or
\* running that unit failed (threw) inside the engine, and then the error is
\* non-null; an entry with other fields may carry a non-null error that the
\* unit reported itself in the metrics of a run that did not throw.
C28_ErrorOnlyEntryIffFailed ==
  (pc = "returned" /\ outcome.kind = "resolved") =>
    \A i \in Indices :
      (IsLast(i) /\ promises[i].name \in DOMAIN outcome.results) =>
        LET entry == outcome.results[promises[i].name] IN
        /\ (DOMAIN entry = {"error"}) <=> FailedInEngine(i)
        /\ FailedInEngine(i) => HasError(entry)

\* A standard call over BasicParserAgent and an unregistered name, with a
\* context without dataString, has returned: the parser's run resolved with
\* metrics carrying an error, the unregistered name has an error-only entry.
C28_Witness ==
  /\ StandardReturned
  /\ outcome.kind = "resolved"
  /\ experiment.agents = << BasicParserAgent.name, "ghost" >>
  /\ experiment.context = EmptyCtx
  /\ promises[1].how = "resolved"
  /\ HasError(outcome.results[BasicParserAgent.name])
  /\ outcome.results[BasicParserAgent.name].success = FALSE
  /\ outcome.results["ghost"] = [error |-> NotFoundMsg("ghost")]

\* ================================================================ useTasks
\* The most createTask calls and the most changes of the tasks table
\* modelled.
MaxCreates == 1
MaxEvents == 2

\* Ids: `temp-${Date.now()}` of an optimistic task, and the id the server
\* gives a row.
TempId(now) == [kind |-> "temp", n |-> now]
RowId(n) == [kind |-> "row", n |-> n]

TaskItem(id, from) == [id |-> id, from |-> from]

\* The hook after its first load of an empty table: no task, no pending
\* update, no createTask in flight, no realtime event under way.
NewTasks ==
  [step |-> "live", now |-> 0, data |-> << >>, pending |-> {},
   creates |-> << >>, rows |-> 0, events |-> << >>, changes |-> 0]

\* prev.map(item => item.id === id ? replacement : item)
MapReplace(data, id, replacement) ==
  [i \in DOMAIN data |-> IF data[i].id = id THEN replacement ELSE data[i]]

\* prev.filter(item => item.id !== id)
FilterOut(data, id) == SelectSeq(data, LAMBDA item : item.id # id)

\* addOptimistic(item)
addOptimistic(t, item) ==
  [t EXCEPT !.pending = @ \cup {item.id}, !.data = Append(@, item)]

\* confirmOptimistic(id, serverData)
confirmOptimistic(t, id, serverData) ==
  [t EXCEPT !.pending = @ \ {id}, !.data = MapReplace(@, id, serverData)]

\* revertOptimistic(id)
revertOptimistic(t, id) ==
  [t EXCEPT !.pending = @ \ {id}, !.data = FilterOut(@, id)]

\* Date.now() moves on by a millisecond.
TasksClockTick ==
  /\ tasks.step = "live"
  /\ tasks.now < MaxClock
  /\ tasks' = [tasks EXCEPT !.now = @ + 1]
  /\ UNCHANGED engineVars
  /\ UNCHANGED notTasks

\* createTask(data), up to its await of apiService.create.
CreateTask ==
  /\ tasks.step = "live"
  /\ Len(tasks.creates) < MaxCreates
  /\ LET tempId == TempId(tasks.now) IN
     tasks' = [addOptimistic(tasks, TaskItem(tempId, "optimistic"))
                 EXCEPT !.creates = Append(@, [tempId |-> tempId, step |-> "sent",
                                               row |-> None])]
  /\ UNCHANGED engineVars
  /\ UNCHANGED notTasks

\* The backend handles the create request of the c-th createTask: it inserts
\* a row, which the realtime channel announces, or it reports an error.
BackendCreate(c, ok) ==
  /\ tasks.step = "live"
  /\ c \in DOMAIN tasks.creates
  /\ tasks.creates[c].step = "sent"
  /\ tasks' =
       IF ok
         THEN [tasks EXCEPT
                 !.rows = @ + 1,
                 !.creates[c] = [tempId |-> tasks.creates[c].tempId,
                                 step |-> "answered",
                                 row |-> Some(RowId(tasks.rows + 1))],
                 !.events = Append(@, [eventType |-> "INSERT",
                                       id |-> RowId(tasks.rows + 1)])]
         ELSE [tasks EXCEPT
                 !.creates[c] = [tempId |-> tasks.creates[c].tempId,
                                 step |-> "answered", row |-> None]]
  /\ UNCHANGED engineVars
  /\ UNCHANGED notTasks

\* createTask resumes with the ApiResponse: revert on an error, confirm with
\* the server's row otherwise.
CreateResumes(c) ==
  /\ tasks.step = "live"
  /\ c \in DOMAIN tasks.creates
  /\ tasks.creates[c].step = "answered"
  /\ LET call == tasks.creates[c]
         t == [tasks EXCEPT !.creates[c] = [tempId |-> call.tempId,
                                            step |-> "returned",
                                            row |-> call.row]] IN
     tasks' = IF call.row = None
                THEN revertOptimistic(t, call.tempId)
                ELSE confirmOptimistic(t, call.tempId,
                                       TaskItem(The(call.row), "server"))
  /\ UNCHANGED engineVars
  /\ UNCHANGED notTasks

\* Another change of an existing row of the table, announced on the channel.
BackendChange(eventType, n) ==
  /\ tasks.step = "live"
  /\ tasks.changes < MaxEvents
  /\ n \in 1..tasks.rows
  /\ tasks' = [tasks EXCEPT
                 !.changes = @ + 1,
                 !.events = Append(@, [eventType |-> eventType, id |-> RowId(n)])]
  /\ UNCHANGED engineVars
  /\ UNCHANGED notTasks

\* The next realtime event reaches the handlers of useTasks.
RealtimeEvent ==
  /\ tasks.step = "live"
  /\ tasks.events # << >>
  /\ LET payload == Head(tasks.events) IN
     tasks' = [tasks EXCEPT
       !.events = Tail(@),
       !.data = CASE payload.eventType = "INSERT" ->
                       << TaskItem(payload.id, "realtime") >> \o @
                  [] payload.eventType = "UPDATE" ->
                       MapReplace(@, payload.id, TaskItem(payload.id, "realtime"))
                  [] payload.eventType = "DELETE" ->
                       FilterOut(@, payload.id)]
  /\ UNCHANGED engineVars
  /\ UNCHANGED notTasks

InitTasks ==
  /\ EngineIdle
  /\ tasks = NewTasks
  /\ parser = NoParser
  /\ breaker = NoBreaker
  /\ retry = NoRetry
  /\ api = NoApi
  /\ jobs = NoJobs

NextTasks ==
  \/ TasksClockTick
  \/ CreateTask
  \/ \E c \in 1..MaxCreates, ok \in BOOLEAN : BackendCreate(c, ok)
  \/ \E c \in 1..MaxCreates : CreateResumes(c)
  \/ \E eventType \in {"UPDATE", "DELETE"}, n \in 1..MaxCreates :
       BackendChange(eventType, n)
  \/ RealtimeEvent

SpecTasks == InitTasks /\ [][NextTasks]_vars

\* C30: the task list never holds two items with the same id, in whatever
\* order createTask's optimistic add, its confirmation or revert and the
\* realtime events of the task happen.
C30_NoDuplicateIds ==
  tasks.step = "live" =>
    \A i, j \in DOMAIN tasks.data :
      i # j => tasks.data[i].id # tasks.data[j].id

====
